---- MODULE Spec2Model ----
(***************************************************************************)
(* Model of main.py: the request handler process_text, the LLM wrapper     *)
(* call_gemini, the document-request compiler format_docs_requests and the *)
(* publisher create_google_doc.                                            *)
(*                                                                         *)
(* Python strings are sequences of code points; a character is a TLA+      *)
(* string, named by its code point when it is not ASCII.  JSON values      *)
(* carry their type in a record.                                           *)
(***************************************************************************)
EXTENDS Integers, Sequences, FiniteSets, TLC

VARIABLES
    pc,               \* position of the request inside process_text / create_google_doc
    env,              \* GCP_PROJECT_ID set?, docs/drive clients initialised?
    request,          \* the inbound HTTP request
    gemini_result,    \* value returned by call_gemini
    url,              \* data.get('url')
    content_requests, \* list returned by format_docs_requests
    created_doc,      \* result of drive files().create()
    document_id,      \* local document_id of create_google_doc ("unbound" until assigned)
    error,            \* exception in flight
    calls,            \* collaborator calls issued so far, in order
    response          \* HTTP response

vars == <<pc, env, request, gemini_result, url, content_requests, created_doc,
          document_id, error, calls, response>>

----------------------------------------------------------------------------
(* Bounds *)

MaxLines == 2     \* lines in translated_summary
MaxBlocks == 2    \* entries of code_blocks

----------------------------------------------------------------------------
(* Python string primitives *)

NL == "\n"

Whitespace == {" ", "\t", NL}

\* Characters outside ASCII are named by their code point ("u30FB").
Wide3 == {"u3002", "u3057", "u305F", "u306B", "u306E", "u3073", "u307E", "u30A8", "u30AD",
          "u30C9", "u30E9", "u30EF", "u30FB", "u30FC", "u51FA", "u53D6", "u547C", "u548C",
          "u5931", "u5F97", "u5FDC", "u6557", "u6790", "u7B54", "u89E3", "u8A33", "u9023",
          "u95A2", "u984C"}
Wide2 == {"u00E9"}

\* UTF-8 width of a character: what len() would count were it to count bytes.
Utf8Width(c) == IF c \in Wide3 THEN 3 ELSE IF c \in Wide2 THEN 2 ELSE 1

RECURSIVE ByteLen(_)
ByteLen(s) == IF s = <<>> THEN 0 ELSE Utf8Width(Head(s)) + ByteLen(Tail(s))

\* len(s): the number of code points
PyLen(s) == Len(s)

\* s.split('\n')
RECURSIVE Split(_)
Split(s) ==
    IF \A i \in 1..Len(s) : s[i] # NL
    THEN <<s>>
    ELSE LET i == CHOOSE k \in 1..Len(s) :
                      s[k] = NL /\ \A j \in 1..(k - 1) : s[j] # NL
         IN <<SubSeq(s, 1, i - 1)>> \o Split(SubSeq(s, i + 1, Len(s)))

\* s.strip()
RECURSIVE Strip(_)
Strip(s) ==
    IF s = <<>> THEN s
    ELSE IF Head(s) \in Whitespace THEN Strip(Tail(s))
    ELSE IF s[Len(s)] \in Whitespace THEN Strip(SubSeq(s, 1, Len(s) - 1))
    ELSE s

\* s.startswith(c) for a one-character prefix
StartsWith(s, c) == s # <<>> /\ Head(s) = c

\* d.get(k, default) on a dict whose values are all of one type
DictGet(d, k, default) == IF k \in DOMAIN d THEN d[k] ELSE default

----------------------------------------------------------------------------
(* String literals of the source *)

SummaryHeader == <<"1", " ", "-", " ", "S", "u", "m", "m", "a", "r", "y", NL>>
SummaryDefault == <<"u548C", "u8A33", "u306E", "u53D6", "u5F97", "u306B", "u5931", "u6557",
                    "u3057", "u307E", "u3057", "u305F", "u3002">>
BulletMarker == "u30FB"
CodeHeader == <<NL, "C", "o", "d", "e", " ", "b", "l", "o", "c", "k", ":", NL>>
UrlTitlePrefix == <<"2", " ", "-", " ", "U", "R", "L", " ", "-", " ">>
PageTitleDefault == <<"T", "i", "t", "l", "e", " ", "a", "c", "q", "u", "i", "s", "i", "t",
                      "i", "o", "n", " ", "f", "a", "i", "l", "u", "r", "e">>
KeywordsTitle == <<"3", " ", "-", " ", "u95A2", "u9023", "u30AD", "u30FC",
                  "u30EF", "u30FC", "u30C9">>
KeywordsDefault == <<"E", "x", "t", "r", "a", "c", "t", "i", "o", "n", " ", "f", "a", "i",
                     "l", "u", "r", "e">>
PageTitleFailure == <<"F", "a", "i", "l", "u", "r", "e">>

----------------------------------------------------------------------------
(* format_docs_requests: the compiler.  st carries requests_list and        *)
(* current_index through the four sections.                                 *)

InsertText(index, text) == [type |-> "insertText", index |-> index, text |-> text]

UpdateParagraphStyle(s, e, style) ==
    [type |-> "updateParagraphStyle", startIndex |-> s, endIndex |-> e,
     namedStyleType |-> style]

CreateParagraphBullets(s, e) ==
    [type |-> "createParagraphBullets", startIndex |-> s, endIndex |-> e]

UpdateTextStyle(s, e, fields, link) ==
    [type |-> "updateTextStyle", startIndex |-> s, endIndex |-> e,
     fields |-> fields, link |-> link]

CompilerStart == [requests_list |-> <<>>, current_index |-> 1]

\* lines 195-208
SummaryHeading(st) ==
    LET after == st.current_index + PyLen(SummaryHeader)
    IN [requests_list |-> st.requests_list
                            \o <<InsertText(st.current_index, SummaryHeader),
                                 UpdateParagraphStyle(1, after, "HEADING_1")>>,
        current_index |-> after]

\* The loop of a mutant compiler that advances the cursor by len(line), not by
\* len(line_text)
RECURSIVE SummaryLinesNoNewline(_, _)
SummaryLinesNoNewline(st, lines) ==
    IF lines = <<>> THEN st
    ELSE LET line == Head(lines)
             line_text == line \o <<NL>>
             line_start_index == st.current_index
             after == st.current_index + PyLen(line)
             ins == <<InsertText(st.current_index, line_text)>>
             bul == IF StartsWith(Strip(line), BulletMarker)
                    THEN <<CreateParagraphBullets(line_start_index, after)>>
                    ELSE <<>>
         IN IF Strip(line) # <<>>
            THEN SummaryLinesNoNewline([requests_list |-> st.requests_list \o ins \o bul,
                                        current_index |-> after], Tail(lines))
            ELSE SummaryLinesNoNewline(st, Tail(lines))

\* lines 211-234, one iteration of the loop per line
RECURSIVE SummaryLines(_, _)
SummaryLines(st, lines) ==
    IF lines = <<>> THEN st
    ELSE LET line == Head(lines)
             line_text == line \o <<NL>>
             line_start_index == st.current_index
             after == st.current_index + PyLen(line_text)
             ins == <<InsertText(st.current_index, line_text)>>
             bul == IF StartsWith(Strip(line), BulletMarker)
                    THEN <<CreateParagraphBullets(line_start_index, after - 1)>>
                    ELSE <<>>
         IN IF Strip(line) # <<>>
            THEN SummaryLines([requests_list |-> st.requests_list \o ins \o bul,
                               current_index |-> after], Tail(lines))
            ELSE SummaryLines(st, Tail(lines))

\* lines 247-270, one iteration of the loop per code block
RECURSIVE CodeBlocks(_, _)
CodeBlocks(st, blocks) ==
    IF blocks = <<>> THEN st
    ELSE LET code_text == Head(blocks) \o <<NL, NL>>
             code_start_index == st.current_index
             after == st.current_index + PyLen(code_text)
         IN CodeBlocks(
                [requests_list |-> st.requests_list
                     \o <<InsertText(st.current_index, code_text),
                          UpdateTextStyle(code_start_index, after - 2,
                                          "weightedFontFamily,fontSize", <<>>)>>,
                 current_index |-> after],
                Tail(blocks))

\* lines 237-270
CodeSection(st, code_blocks) ==
    IF code_blocks # <<>>
    THEN CodeBlocks([requests_list |-> st.requests_list
                                          \o <<InsertText(st.current_index, CodeHeader)>>,
                     current_index |-> st.current_index + PyLen(CodeHeader)],
                    code_blocks)
    ELSE st

\* lines 273-299
UrlSection(st, page_title, u) ==
    LET title_line == UrlTitlePrefix \o page_title
        url_text == <<NL>> \o title_line \o <<NL>> \o u \o <<NL>>
        url_title_start_index == st.current_index + 1
        after == st.current_index + PyLen(url_text)
    IN [requests_list |-> st.requests_list
            \o <<InsertText(st.current_index, url_text),
                 UpdateParagraphStyle(url_title_start_index,
                                      url_title_start_index + PyLen(title_line),
                                      "HEADING_2"),
                 UpdateTextStyle(after - PyLen(u) - 1, after - 1, "link", u)>>,
        current_index |-> after]

\* lines 303-319
KeywordsSection(st, keywords) ==
    LET keywords_text == <<NL>> \o KeywordsTitle \o <<NL>> \o keywords \o <<NL>>
        keywords_title_start_index == st.current_index + 1
        after == st.current_index + PyLen(keywords_text)
    IN [requests_list |-> st.requests_list
            \o <<InsertText(st.current_index, keywords_text),
                 UpdateParagraphStyle(keywords_title_start_index,
                                      keywords_title_start_index + PyLen(KeywordsTitle),
                                      "HEADING_2")>>,
        current_index |-> after]

\* lines 189-321; d is the dict gemini_result, u the url string
format_docs_requests(d, u) ==
    LET s1 == SummaryHeading(CompilerStart)
        s2 == SummaryLines(s1, Split(DictGet(d, "translated_summary", SummaryDefault)))
        s3 == CodeSection(s2, DictGet(d, "code_blocks", <<>>))
        s4 == UrlSection(s3, DictGet(d, "page_title", PageTitleDefault), u)
        s5 == KeywordsSection(s4, DictGet(d, "keywords", KeywordsDefault))
    IN s5.requests_list

----------------------------------------------------------------------------
(* Values exchanged with the collaborators *)

Fields == {"translated_summary", "code_blocks", "page_title", "keywords"}

\* JSON values of the request body fields; a missing key reads as None
JNull == [t |-> "null", v |-> <<>>]
JStr(s) == [t |-> "str", v |-> s]
JNum == [t |-> "num", v |-> <<>>]

\* Python truthiness of a JSON value (the number is not zero)
Truthy(j) == (j.t = "str" /\ j.v # <<>>) \/ j.t = "num"

ErrText == <<"e", "r", "r">>

\* The backquote of a code fence
BQ == "u0060"

\* Raw model output: an optional leading fence, a payload, an optional trailing fence.
FenceJson == <<BQ, BQ, BQ, "j", "s", "o", "n", NL>>
FencePlain == <<BQ, BQ, BQ, NL>>
FenceEnd == <<NL, BQ, BQ, BQ>>

PayloadText(p) ==
    CASE p.kind = "object" -> <<"{", "}">>
      [] p.kind = "array" -> <<"[", "]">>
      [] p.kind = "scalar" -> <<"7">>
      [] OTHER -> <<"o", "o", "p", "s">>

\* response.text
Prediction(raw) ==
    (CASE raw.lead = "json" -> FenceJson [] raw.lead = "plain" -> FencePlain [] OTHER -> <<>>)
    \o PayloadText(raw.payload)
    \o (IF raw.trail = "fence" THEN FenceEnd ELSE <<>>)

\* lines 111-113: the two re.sub calls remove a leading fence tagged json and a trailing fence;
\* json.loads then fails on a leading fence without the json tag and on text that
\* is not JSON, and returns any JSON value otherwise.
JsonLoads(raw) ==
    IF raw.lead = "plain" \/ raw.payload.kind = "garbage"
    THEN [ok |-> FALSE, type |-> "none", value |-> <<>>]
    ELSE [ok |-> TRUE,
          type |-> (CASE raw.payload.kind = "object" -> "dict"
                      [] raw.payload.kind = "array" -> "list"
                      [] OTHER -> "int"),
          value |-> raw.payload.value]

\* lines 119-124
ParseFailureResult(raw) ==
    "translated_summary" :> (<<"G", "e", "m", "i", "n", "i", "u5FDC", "u7B54", "u306E", "J",
                               "S", "O", "N", "u89E3", "u6790", "u5931", "u6557", ":", " ">>
                             \o ErrText \o <<NL, "R", "a", "w", ":", " ">> \o Prediction(raw))
    @@ "code_blocks" :> <<>>
    @@ "page_title" :> PageTitleFailure
    @@ "keywords" :> KeywordsDefault

\* lines 129-134
ApiFailureResult ==
    "translated_summary" :> (<<"G", "e", "m", "i", "n", "i", " ", "A", "P", "I", "u547C",
                               "u3073", "u51FA", "u3057", "u30A8", "u30E9", "u30FC", ":", " ">>
                             \o ErrText)
    @@ "code_blocks" :> <<>>
    @@ "page_title" :> PageTitleFailure
    @@ "keywords" :> KeywordsDefault

\* lines 110-124: the parsing step
ParsePrediction(raw) ==
    LET r == JsonLoads(raw)
    IN IF r.ok THEN [type |-> r.type, value |-> r.value]
       ELSE [type |-> "dict", value |-> ParseFailureResult(raw)]

\* lines 101-134: o is the outcome of model.generate_content
call_gemini(o) ==
    IF o.kind = "ok" THEN ParsePrediction(o.raw)
    ELSE [type |-> "dict", value |-> ApiFailureResult]

----------------------------------------------------------------------------
(* Inputs *)

\* An optional value: <<>> when absent, <<v>> when present
Opt(S) == {<<>>} \cup {<<v>> : v \in S}

MkDict(ts, cb, pt, kw) ==
    LET o == [f \in Fields |->
                 CASE f = "translated_summary" -> ts
                   [] f = "code_blocks" -> cb
                   [] f = "page_title" -> pt
                   [] OTHER -> kw]
    IN [f \in {g \in Fields : o[g] # <<>>} |-> o[f][1]]

RECURSIVE JoinLines(_)
JoinLines(ls) ==
    IF Len(ls) = 1 THEN ls[1] ELSE ls[1] \o <<NL>> \o JoinLines(Tail(ls))

LineSet == {<<>>, <<" ">>, <<"a">>, <<BulletMarker, "a">>, <<" ", BulletMarker>>}
Summaries == UNION {{JoinLines(ls) : ls \in [1..n -> LineSet]} : n \in 1..MaxLines}
BlockSet == {<<>>, <<BQ, "x">>, <<"u984C">>}
CodeBlockLists == UNION {[1..n -> BlockSet] : n \in 0..MaxBlocks}
PageTitles == {<<>>, <<"T">>, <<"u984C", "u00E9">>}
KeywordStrings == {<<>>, <<"k", ",", " ", "u95A2">>}
Urls == {<<"h">>, <<"h", "u00E9", "u984C">>}
Texts == {<<"H", "i">>}

\* Every dict the compiler is checked on
ModelResults ==
    {MkDict(ts, cb, pt, kw) : ts \in Opt(Summaries), cb \in Opt(CodeBlockLists),
                              pt \in Opt(PageTitles), kw \in Opt(KeywordStrings)}

\* The JSON objects the model returns in the request pipeline
SampleDicts ==
    {MkDict(ts, cb, pt, kw) : ts \in Opt({<<BulletMarker, "a", NL, "b">>}),
                              cb \in Opt({<<<<BQ, "x">>>>}),
                              pt \in Opt({<<"T">>}),
                              kw \in Opt({<<"k">>})}

Payloads ==
    {[kind |-> "object", value |-> d] : d \in SampleDicts}
    \cup {[kind |-> k, value |-> <<>>] : k \in {"array", "scalar", "garbage"}}

RawOutputs == [lead : {"none", "json", "plain"}, trail : {"none", "fence"}, payload : Payloads]

\* Outcomes of model.generate_content
LlmOutcomes ==
    {[kind |-> "ok", raw |-> r] : r \in RawOutputs}
    \cup {[kind |-> k, raw |-> <<>>] : k \in {"permission_denied", "error"}}

JValues == {JNull, JStr(<<>>), JNum} \cup {JStr(t) : t \in Texts}
JUrls == {JNull, JStr(<<>>), JNum} \cup {JStr(<<"h">>)}

Bodies ==
    {[kind |-> k, text |-> JNull, url |-> JNull] : k \in {"malformed", "array", "string", "null"}}
    \cup {[kind |-> "object", text |-> t, url |-> u] : t \in JValues, u \in JUrls}

Requests == [is_json : BOOLEAN, body : Bodies]

Envs == [project : BOOLEAN, services : BOOLEAN]

NoDoc == [id |-> "None", webViewLink |-> "None"]
NoResponse == [status |-> 0, body |-> "none", detail |-> "none"]

----------------------------------------------------------------------------
(* The request pipeline *)

Call(svc, id, outcome) == [svc |-> svc, id |-> id, outcome |-> outcome]

Respond(status, body, detail) ==
    /\ response' = [status |-> status, body |-> body, detail |-> detail]
    /\ pc' = "done"

\* lines 364-371: both handlers of process_text answer 500 with an error object
RespondException(e) == Respond(500, "error", e)

Init ==
    /\ pc = "start"
    /\ env \in Envs
    /\ request \in Requests
    /\ gemini_result = [type |-> "none", value |-> <<>>]
    /\ url = JNull
    /\ content_requests = <<>>
    /\ created_doc = NoDoc
    /\ document_id = "unbound"
    /\ error = "none"
    /\ calls = <<>>
    /\ response = NoResponse

\* lines 328-342: the checks of process_text before the first collaborator call.
\* request.is_json looks at the content type only; get_json() raises BadRequest on
\* an unparsable body; data.get(...) raises AttributeError, outside the try block,
\* when the parsed value is not an object.
Validate ==
    /\ pc = "start"
    /\ UNCHANGED <<env, request, gemini_result, content_requests, created_doc,
                   document_id, error, calls>>
    /\ IF ~request.is_json
       THEN Respond(400, "error", "not_json") /\ UNCHANGED url
       ELSE IF request.body.kind = "malformed"
       THEN Respond(400, "framework", "BadRequest") /\ UNCHANGED url
       ELSE IF request.body.kind # "object"
       THEN Respond(500, "framework", "AttributeError") /\ UNCHANGED url
       ELSE IF ~Truthy(request.body.text) \/ ~Truthy(request.body.url)
       THEN Respond(400, "error", "missing") /\ UNCHANGED url
       ELSE IF ~env.project
       THEN Respond(500, "error", "no_project") /\ UNCHANGED url
       ELSE IF ~env.services
       THEN Respond(500, "error", "no_services") /\ UNCHANGED url
       ELSE /\ url' = request.body.url
            /\ pc' = "call_gemini"
            /\ UNCHANGED response

\* line 347: call_gemini never raises once generate_content was called
CallGemini ==
    /\ pc = "call_gemini"
    /\ \E o \in LlmOutcomes :
          /\ calls' = Append(calls, Call("llm", "none", o.kind))
          /\ gemini_result' = call_gemini(o)
    /\ pc' = "format"
    /\ UNCHANGED <<env, request, url, content_requests, created_doc, document_id,
                   error, response>>

\* lines 351-355: gemini_result.get raises AttributeError on a value that is no dict,
\* text_content[:20] and len(url) raise TypeError on a number
FormatRequests ==
    /\ pc = "format"
    /\ UNCHANGED <<env, request, gemini_result, url, created_doc, document_id, error, calls>>
    /\ IF gemini_result.type # "dict"
       THEN RespondException("AttributeError") /\ UNCHANGED content_requests
       ELSE IF request.body.text.t # "str" \/ url.t # "str"
       THEN RespondException("TypeError") /\ UNCHANGED content_requests
       ELSE /\ content_requests' = format_docs_requests(gemini_result.value, url.v)
            /\ pc' = "create"
            /\ UNCHANGED response

\* lines 138-153: files().create(); an exception leaves document_id unbound, so the
\* handler of lines 178-187 deletes nothing and re-raises
CreateDocument ==
    /\ pc = "create"
    /\ UNCHANGED <<env, request, gemini_result, url, content_requests>>
    /\ \E o \in {"ok", "no_id", "fail"} :
          /\ calls' = Append(calls, Call("create", "none", o))
          /\ IF o = "fail"
             THEN /\ error' = "create_error"
                  /\ RespondException("create_error")
                  /\ UNCHANGED <<created_doc, document_id>>
             ELSE /\ created_doc' = [id |-> IF o = "ok" THEN "doc1" ELSE "None",
                                     webViewLink |-> IF o = "ok" THEN "link1" ELSE "None"]
                  /\ document_id' = created_doc'.id
                  /\ pc' = "grant"
                  /\ UNCHANGED <<error, response>>

\* The grant of a mutant publisher that does not catch its failure: the handler
\* of lines 178-187 then deletes the document and re-raises
GrantAccessAborts ==
    /\ pc = "grant"
    /\ UNCHANGED <<env, request, gemini_result, url, content_requests, created_doc,
                   document_id>>
    /\ \E o \in {"ok", "fail"} :
          /\ calls' = Append(calls, Call("grant", document_id, o))
          /\ IF o = "fail"
             THEN /\ error' = "grant_error"
                  /\ IF document_id = "None"
                     THEN RespondException("grant_error")
                     ELSE pc' = "delete" /\ UNCHANGED response
             ELSE IF document_id = "None"
             THEN error' = "no_id_error" /\ RespondException("no_id_error")
             ELSE pc' = "batch" /\ UNCHANGED <<error, response>>

\* lines 154-167: permissions().create() with its failure swallowed, then the check
\* of document_id; with no identifier the handler deletes nothing and re-raises
GrantAccess ==
    /\ pc = "grant"
    /\ UNCHANGED <<env, request, gemini_result, url, content_requests, created_doc,
                   document_id>>
    /\ \E o \in {"ok", "fail"} :
          calls' = Append(calls, Call("grant", document_id, o))
    /\ IF document_id = "None"
       THEN error' = "no_id_error" /\ RespondException("no_id_error")
       ELSE pc' = "batch" /\ UNCHANGED <<error, response>>

\* lines 170-181: batchUpdate; success returns doc_url, failure enters the handler
BatchUpdate ==
    /\ pc = "batch"
    /\ UNCHANGED <<env, request, gemini_result, url, content_requests, created_doc,
                   document_id>>
    /\ \E o \in {"ok", "fail"} :
          /\ calls' = Append(calls, Call("batch", document_id, o))
          /\ IF o = "ok"
             THEN Respond(200, "document_url", created_doc.webViewLink) /\ UNCHANGED error
             ELSE error' = "batch_error" /\ pc' = "delete" /\ UNCHANGED response

\* The delete of a mutant handler that lets its own failure escape
DeleteDocumentEscalates ==
    /\ pc = "delete"
    /\ UNCHANGED <<env, request, gemini_result, url, content_requests, created_doc,
                   document_id>>
    /\ \E o \in {"ok", "fail"} :
          /\ calls' = Append(calls, Call("delete", document_id, o))
          /\ error' = IF o = "fail" THEN "delete_error" ELSE error
          /\ RespondException(error')

\* lines 181-187: files().delete() with its failure swallowed, then the bare raise
DeleteDocument ==
    /\ pc = "delete"
    /\ UNCHANGED <<env, request, gemini_result, url, content_requests, created_doc,
                   document_id, error>>
    /\ \E o \in {"ok", "fail"} :
          calls' = Append(calls, Call("delete", document_id, o))
    /\ RespondException(error)

Next ==
    \/ Validate
    \/ CallGemini
    \/ FormatRequests
    \/ CreateDocument
    \/ GrantAccess
    \/ BatchUpdate
    \/ DeleteDocument

Spec == Init /\ [][Next]_vars

\* The compiler alone: the request has reached format_docs_requests with any dict
InitCompile ==
    /\ pc = "format"
    /\ env = [project |-> TRUE, services |-> TRUE]
    /\ \E t \in Texts, u \in Urls :
          /\ request = [is_json |-> TRUE,
                        body |-> [kind |-> "object", text |-> JStr(t), url |-> JStr(u)]]
          /\ url = JStr(u)
    /\ \E d \in ModelResults : gemini_result = [type |-> "dict", value |-> d]
    /\ content_requests = <<>>
    /\ created_doc = NoDoc
    /\ document_id = "unbound"
    /\ error = "none"
    /\ calls = <<Call("llm", "none", "ok")>>
    /\ response = NoResponse

NextCompile == FormatRequests

SpecCompile == InitCompile /\ [][NextCompile]_vars

----------------------------------------------------------------------------
(* Properties of the compiler, checked under SpecCompile.  The operations   *)
(* are replayed against an insert-only buffer whose first character is at   *)
(* offset 1.                                                                *)

Filler == "?"

\* The characters of buffer b at offsets s .. e-1; an offset outside b reads Filler
Slice(b, s, e) ==
    IF e <= s THEN <<>>
    ELSE [i \in 1..(e - s) |-> IF (s + i - 1) \in 1..Len(b) THEN b[s + i - 1] ELSE Filler]

\* b with text inserted at offset index
InsertAt(b, index, text) ==
    Slice(b, 1, index) \o text \o Slice(b, index, Len(b) + 1)

RECURSIVE Replay(_)
Replay(ops) ==
    IF ops = <<>> THEN <<>>
    ELSE LET before == Replay(SubSeq(ops, 1, Len(ops) - 1))
             op == ops[Len(ops)]
         IN IF op.type = "insertText" THEN InsertAt(before, op.index, op.text) ELSE before

\* Sum of the code-point lengths of the texts inserted by ops
RECURSIVE InsertedLength(_)
InsertedLength(ops) ==
    IF ops = <<>> THEN 0
    ELSE InsertedLength(Tail(ops))
         + (IF Head(ops).type = "insertText" THEN Len(Head(ops).text) ELSE 0)

RECURSIVE InsertedBytes(_)
InsertedBytes(ops) ==
    IF ops = <<>> THEN 0
    ELSE InsertedBytes(Tail(ops))
         + (IF Head(ops).type = "insertText" THEN ByteLen(Head(ops).text) ELSE 0)

Before(k) == SubSeq(content_requests, 1, k - 1)

Compiled == pc = "create"

OpIndexes == 1..Len(content_requests)

IsHeading1(k) ==
    /\ content_requests[k].type = "updateParagraphStyle"
    /\ content_requests[k].namedStyleType = "HEADING_1"

IsLink(k) ==
    /\ content_requests[k].type = "updateTextStyle"
    /\ content_requests[k].fields = "link"

IsRangeOp(k) ==
    content_requests[k].type \in {"updateParagraphStyle", "createParagraphBullets",
                                  "updateTextStyle"}

SummaryTitle == <<"1", " ", "-", " ", "S", "u", "m", "m", "a", "r", "y">>

\* C1: the range of the HEADING_1 operation covers exactly the 11 characters
\* "1 - Summary" and not the line break that follows them.
C1_HeadingExcludesLineBreak ==
    Compiled =>
        /\ \E k \in OpIndexes : IsHeading1(k)
        /\ \A k \in OpIndexes :
              IsHeading1(k) =>
                  /\ content_requests[k].endIndex - content_requests[k].startIndex = 11
                  /\ Slice(Replay(Before(k)), content_requests[k].startIndex,
                           content_requests[k].endIndex) = SummaryTitle

\* What the code emits for the heading: offsets 1 to 13, the line break included
C1_HeadingAsEmitted ==
    Compiled =>
        \A k \in OpIndexes :
            IsHeading1(k) =>
                /\ content_requests[k].startIndex = 1
                /\ content_requests[k].endIndex = 13
                /\ Slice(Replay(Before(k)), 1, 13) = SummaryHeader

\* C6: the link operation's range has the code-point length of the URL and covers
\* exactly the inserted URL: it starts right after the line break ending the
\* "2 - URL - {page_title}" line and ends right before the section's last line break.
C6_LinkCoversUrl ==
    Compiled =>
        /\ Cardinality({k \in OpIndexes : IsLink(k)}) = 1
        /\ \A k \in OpIndexes :
              IsLink(k) =>
                  LET b == Replay(Before(k))
                      s == content_requests[k].startIndex
                      e == content_requests[k].endIndex
                      title_line == UrlTitlePrefix
                                    \o DictGet(gemini_result.value, "page_title",
                                               PageTitleDefault)
                  IN /\ e - s = Len(url.v)
                     /\ content_requests[k].link = url.v
                     /\ Slice(b, s, e) = url.v
                     /\ Slice(b, s - 1 - Len(title_line), s) = title_line \o <<NL>>
                     /\ Slice(b, e, e + 1) = <<NL>>
                     /\ e = Len(b)

\* C6 witness: a URL with characters wider than one byte has been compiled
C6_Witness ==
    /\ Compiled
    /\ ByteLen(url.v) > Len(url.v)
    /\ "page_title" \in DOMAIN gemini_result.value
    /\ ByteLen(gemini_result.value["page_title"]) > 2
    /\ \E k \in OpIndexes : IsLink(k) /\ content_requests[k].link = url.v

\* C7: the first insertion is at offset 1 and every insertion is at 1 plus the
\* code-point lengths of all texts inserted before it.
C7_InsertAtEnd ==
    Compiled =>
        /\ content_requests # <<>>
        /\ content_requests[1].type = "insertText"
        /\ content_requests[1].index = 1
        /\ \A k \in OpIndexes :
              content_requests[k].type = "insertText" =>
                  content_requests[k].index = 1 + InsertedLength(Before(k))

\* C7 witness: summary lines, code blocks and both closing sections were inserted,
\* with characters wider than one byte among the earlier texts
C7_Witness ==
    /\ Compiled
    /\ Cardinality({k \in OpIndexes : content_requests[k].type = "insertText"}) >= 8
    /\ \E k \in OpIndexes : content_requests[k].type = "createParagraphBullets"
    /\ InsertedBytes(Before(Len(content_requests) - 1))
           > InsertedLength(Before(Len(content_requests) - 1)) + 8

\* C10: every range operation has a non-empty range inside the document built by
\* the insertions listed before it.
C10_RangesNonEmptyInside ==
    Compiled =>
        \A k \in OpIndexes :
            IsRangeOp(k) =>
                /\ 1 <= content_requests[k].startIndex
                /\ content_requests[k].startIndex < content_requests[k].endIndex
                /\ content_requests[k].endIndex <= 1 + InsertedLength(Before(k))

----------------------------------------------------------------------------
(* Properties of the request pipeline, checked under Spec *)

CallIndexes == 1..Len(calls)

Called(svc) == {i \in CallIndexes : calls[i].svc = svc}

Done == pc = "done"

BatchFailed == \E i \in Called("batch") : calls[i].outcome = "fail"
BatchSucceeded == \E i \in Called("batch") : calls[i].outcome = "ok"
CreatedWithId == \E i \in Called("create") : calls[i].outcome = "ok"

\* C2: after a created document's batch apply failed, exactly one delete is issued
\* for that document before the caller sees the error, and the error the caller
\* sees is the batch-apply error whatever the delete did.
C2_RollbackKeepsBatchError ==
    (CreatedWithId /\ BatchFailed) =>
        /\ error = "batch_error"
        /\ ~Done => (pc = "delete" /\ Called("delete") = {} /\ response = NoResponse)
        /\ Done =>
              /\ Cardinality(Called("delete")) = 1
              /\ \A i \in Called("delete") :
                    /\ calls[i].id = created_doc.id
                    /\ calls[i].id = "doc1"
                    /\ \A j \in Called("batch") : j < i
              /\ response = [status |-> 500, body |-> "error", detail |-> "batch_error"]

\* C2 witness: the delete of the rollback failed too
C2_Witness ==
    /\ Done
    /\ CreatedWithId
    /\ BatchFailed
    /\ \E i \in Called("delete") : calls[i].outcome = "fail"

\* C3: a permission error of the inference backend ends the request with status
\* 500 and no document is created.
C3_PermissionErrorIs500 ==
    (Done /\ \E i \in Called("llm") : calls[i].outcome = "permission_denied") =>
        /\ response.status = 500
        /\ Called("create") = {}

InvalidBody ==
    \/ ~request.is_json
    \/ request.body.kind # "object"
    \/ request.body.text.t = "null"
    \/ request.body.text = JStr(<<>>)
    \/ request.body.url.t = "null"
    \/ request.body.url = JStr(<<>>)

\* C4: a body that is no JSON object with non-empty text and url is answered with
\* status 400 and an error object, and no collaborator is called.
C4_InvalidBodyIs400 ==
    (Done /\ InvalidBody) =>
        /\ response.status = 400
        /\ response.body = "error"
        /\ calls = <<>>

\* C5: whatever text the model returned, the parsing step returns a record that has
\* all four fields.
C5_AllFieldsPresent ==
    (pc \notin {"start", "call_gemini"} /\ \E i \in Called("llm") : calls[i].outcome = "ok") =>
        /\ gemini_result.type = "dict"
        /\ Fields \subseteq DOMAIN gemini_result.value

\* C8: with a created document and a successful batch apply the URL is returned and
\* nothing is deleted, whether or not the grant succeeded; a failed grant is
\* followed by the batch apply.
C8_GrantFailureNotFatal ==
    /\ (Done /\ CreatedWithId /\ BatchSucceeded) =>
          /\ response = [status |-> 200, body |-> "document_url",
                         detail |-> created_doc.webViewLink]
          /\ created_doc.webViewLink = "link1"
          /\ Called("delete") = {}
    /\ \A i \in Called("grant") :
          (calls[i].outcome = "fail" /\ calls[i].id # "None") =>
              IF i = Len(calls) THEN pc = "batch" /\ response = NoResponse
              ELSE calls[i + 1].svc = "batch"

\* C8 witness: the grant failed, the batch apply succeeded
C8_Witness ==
    /\ Done
    /\ BatchSucceeded
    /\ \E i \in Called("grant") : calls[i].outcome = "fail"

\* C9: the calls come in the order create, grant, batch, and every grant, batch and
\* delete call is made for an identifier that the creation returned.
C9_CallsOnlyForReturnedId ==
    \A i \in CallIndexes :
        calls[i].svc \in {"grant", "batch", "delete"} =>
            /\ calls[i].id = "doc1"
            /\ \E j \in Called("create") : j < i /\ calls[j].outcome = "ok"
            /\ calls[i].svc = "batch" => \E j \in Called("grant") : j < i

====
